---- MODULE Spec2Model ----
(***************************************************************************)
(* The Magnify component of magnify-r3f (src/unnamed/part_000): the three  *)
(* offscreen render targets and the effect that allocates them, the lens   *)
(* and FXAA uniform groups, and the useFrame callback that renders the     *)
(* scene either directly (disabled) or through the magnifying pipeline.    *)
(*                                                                         *)
(* Numbers.  JavaScript numbers are modelled as exact rationals <<n, d>>   *)
(* in lowest terms with d > 0 (d = 0 stands for the non-finite result of a *)
(* division by zero).  Floating-point rounding is not modelled.            *)
(*                                                                         *)
(* Scheduling.  JavaScript runs every callback to completion, so the frame *)
(* callback, a commit of new props, and a flush of the passive effects are *)
(* each one atomic action.  React commits new props/size first (the frame  *)
(* callback ref is updated in a layout effect) and runs the passive        *)
(* effects (useEffect) later, so a frame may run between the two.          *)
(***************************************************************************)
EXTENDS Integers, Sequences, FiniteSets, TLC

VARIABLES
    props,        \* the committed MagnifyProps (part_000:61-70)
    size,         \* useThree().size: [width, height, obj], obj its identity
    gl,           \* the renderer: pixelRatio, autoClear, clear colour, target
    maxDims,      \* gl.getContext().getParameter(MAX_VIEWPORT_DIMS)
    background,   \* scene.background: <<>> (not a Color) or <<hex>>
    heap,         \* every WebGLRenderTarget ever constructed, by id 1..Len
    refs,         \* defaultTarget / zoomTarget / fxaaTarget .current (0 = unset)
    uniforms,     \* magnifyMaterial.uniforms
    fxaaUniforms, \* fxaaMaterial.uniforms
    deps,         \* the dependencies the effects last ran with
    life,         \* "rendered" (effects not yet run), "mounted", "unmounted"
    pending,      \* a commit happened whose passive effects have not run yet
    events,       \* number of host events so far (bounded)
    lastBranch,   \* history: the branch the most recent frame took
    lastFrame     \* log of the frame callback that just ran, or NoFrame

vars == <<props, size, gl, maxDims, background, heap, refs, uniforms,
          fxaaUniforms, deps, life, pending, events, lastBranch, lastFrame>>

----------------------------------------------------------------------------
(* Bounds of the model *)

MaxEvents == 2
MaxAllocs == 3

----------------------------------------------------------------------------
(* Exact rational arithmetic standing for JavaScript numbers *)

Abs(n) == IF n < 0 THEN -n ELSE n

RECURSIVE GCD(_, _)
GCD(a, b) == IF b = 0 THEN a ELSE GCD(b, a % b)

Sign(n) == IF n < 0 THEN -1 ELSE IF n > 0 THEN 1 ELSE 0

Norm(n, d) ==
    IF d = 0 THEN <<Sign(n), 0>>
    ELSE LET g == GCD(Abs(n), Abs(d))
             s == IF d < 0 THEN -1 ELSE 1
         IN  <<(s * n) \div g, (s * d) \div g>>

R(n) == <<n, 1>>
Finite(a) == a[2] # 0
RMul(a, b) == Norm(a[1] * b[1], a[2] * b[2])
RDiv(a, b) == IF b[2] = 0 THEN <<0, 0>> ELSE Norm(a[1] * b[2], a[2] * b[1])
RSub(a, b) == Norm(a[1] * b[2] - b[1] * a[2], a[2] * b[2])
RNeg(a) == <<-a[1], a[2]>>
RLe(a, b) == a[1] * b[2] <= b[1] * a[2]
RLt(a, b) == a[1] * b[2] < b[1] * a[2]
RGt(a, b) == RLt(b, a)
RMin(a, b) == IF RLt(b, a) THEN b ELSE a

----------------------------------------------------------------------------
(* Inputs: the values the host may supply *)

Positions == { <<>>, <<0, 0>>, <<400, 300>> }     \* <<>> is position = null
Zooms == { <<1, 2>>, <<1, 1>>, <<2, 1>>, <<3, 1>> }
Styles ==
    { [exp |-> 35, radius |-> 100, outlineColor |-> 13421772, outlineThickness |-> 8],
      [exp |-> 10, radius |-> 110, outlineColor |-> 5592405, outlineThickness |-> 4] }
ScreenSizes == { <<800, 600>>, <<4000, 3000>> }
PixelRatios == { <<1, 1>>, <<2, 1>> }
MaxViewportDims == { <<4096, 4096>>, <<8192, 4096>> }
(* what the component is mounted with; events change it afterwards *)
InitialPositions == { <<>>, <<400, 300>> }
InitialScreenSizes == { <<800, 600>> }
InitialPixelRatios == { <<1, 1>> }

(* The host's renderer and scene set-up: every pair of values of
   gl.autoClear, the clear colour and scene.background occurs. *)
HostSetups ==
    { [autoClear |-> TRUE,  clear |-> <<0, 0>>,       background |-> <<>>],
      [autoClear |-> TRUE,  clear |-> <<2105376, 1>>, background |-> <<1193046>>],
      [autoClear |-> FALSE, clear |-> <<0, 0>>,       background |-> <<1193046>>],
      [autoClear |-> FALSE, clear |-> <<2105376, 1>>, background |-> <<>>] }

(* Default props, part_000:62-69 *)
DefaultProps ==
    [position |-> <<>>, zoom |-> <<2, 1>>, exp |-> 35, radius |-> 100,
     outlineColor |-> 13421772, outlineThickness |-> 8,
     antialias |-> TRUE, enabled |-> TRUE]

WithStyle(p, s) ==
    [p EXCEPT !.exp = s.exp, !.radius = s.radius,
              !.outlineColor = s.outlineColor,
              !.outlineThickness = s.outlineThickness]

StyleOf(p) ==
    [exp |-> p.exp, radius |-> p.radius, outlineColor |-> p.outlineColor,
     outlineThickness |-> p.outlineThickness]

----------------------------------------------------------------------------
(* THREE objects *)

SCREEN == 0     \* gl.setRenderTarget(null)
WHITE == 16777215

(* THREE.Color.set(hex): the packed integer split into normalised r, g, b *)
ColorSetHex(hex) ==
    << Norm((hex \div 65536) % 256, 255),
       Norm((hex \div 256) % 256, 255),
       Norm(hex % 256, 255) >>

(* new THREE.WebGLRenderTarget(width, height, targetOptions) *)
NewRenderTarget(width, height) ==
    [width |-> width, height |-> height,
     viewport |-> <<R(0), R(0), width, height>>, disposed |-> FALSE]

(* WebGLRenderTarget.setSize(width, height): releases the GPU resources only
   when the size differs, and always resets the viewport *)
SetSize(t, width, height) ==
    [t EXCEPT !.width = width, !.height = height,
              !.disposed = IF t.width # width \/ t.height # height
                           THEN TRUE ELSE @,
              !.viewport = <<R(0), R(0), width, height>>]

Dispose(h, ids) ==
    [i \in DOMAIN h |-> IF i \in ids THEN [h[i] EXCEPT !.disposed = TRUE] ELSE h[i]]

(* size.width * pixelRatio, size.height * pixelRatio *)
ScaledWidth(sz, pixelRatio) == RMul(R(sz.width), pixelRatio)
ScaledHeight(sz, pixelRatio) == RMul(R(sz.height), pixelRatio)

RefIds(r) == {r.defaultTarget, r.zoomTarget, r.fxaaTarget} \ {0}

----------------------------------------------------------------------------
(* The viewport / scale computation of the frame callback, part_000:183-231 *)

(* pos = position * pixelRatio, part_000:184-187 *)
PointerPx(position, pixelRatio) ==
    <<RMul(R(position[1]), pixelRatio), RMul(R(position[2]), pixelRatio)>>

(* mutant: the scale factors are inverted (zoomed size over the limit) *)
ZoomedResolution_InvertedScale(width, height, zoom, maxViewportWidth, maxViewportHeight) ==
    LET zoomedWidth == RMul(width, zoom)
        zoomedHeight == RMul(height, zoom)
    IN  IF RGt(zoomedWidth, maxViewportWidth) \/ RGt(zoomedHeight, maxViewportHeight)
        THEN LET scaleX == RDiv(zoomedWidth, maxViewportWidth)
                 scaleY == RDiv(zoomedHeight, maxViewportHeight)
                 scale == RMin(scaleX, scaleY)
             IN  <<RMul(width, scale), RMul(height, scale)>>
        ELSE <<width, height>>

(* mutant: Math.max instead of Math.min *)
ZoomedResolution_MaxScale(width, height, zoom, maxViewportWidth, maxViewportHeight) ==
    LET zoomedWidth == RMul(width, zoom)
        zoomedHeight == RMul(height, zoom)
    IN  IF RGt(zoomedWidth, maxViewportWidth) \/ RGt(zoomedHeight, maxViewportHeight)
        THEN LET scaleX == RDiv(maxViewportWidth, zoomedWidth)
                 scaleY == RDiv(maxViewportHeight, zoomedHeight)
                 scale == IF RLt(scaleX, scaleY) THEN scaleY ELSE scaleX
             IN  <<RMul(width, scale), RMul(height, scale)>>
        ELSE <<width, height>>

(* resWidth, resHeight, part_000:197-211 *)
ZoomedResolution(width, height, zoom, maxViewportWidth, maxViewportHeight) ==
    LET zoomedWidth == RMul(width, zoom)
        zoomedHeight == RMul(height, zoom)
    IN  IF RGt(zoomedWidth, maxViewportWidth) \/ RGt(zoomedHeight, maxViewportHeight)
        THEN LET scaleX == RDiv(maxViewportWidth, zoomedWidth)
                 scaleY == RDiv(maxViewportHeight, zoomedHeight)
                 scale == RMin(scaleX, scaleY)
             IN  <<RMul(width, scale), RMul(height, scale)>>
        ELSE <<width, height>>

(* mutant: the offset uses zoom instead of zoom - 1 *)
ZoomedViewport_OffsetByZoom(pos, zoom, width, height, res) ==
    << RDiv(RMul(RMul(RNeg(pos[1]), zoom), width), res[1]),
       RDiv(RMul(RMul(RNeg(pos[2]), zoom), height), res[2]),
       RMul(RDiv(RMul(width, width), res[1]), zoom),
       RMul(RDiv(RMul(height, height), res[2]), zoom) >>

(* mutant: the viewport size is not multiplied by zoom *)
ZoomedViewport_SizeNotZoomed(pos, zoom, width, height, res) ==
    << RDiv(RMul(RMul(RNeg(pos[1]), RSub(zoom, R(1))), width), res[1]),
       RDiv(RMul(RMul(RNeg(pos[2]), RSub(zoom, R(1))), height), res[2]),
       RDiv(RMul(width, width), res[1]),
       RDiv(RMul(height, height), res[2]) >>

(* mutant: the offset is divided by zoom - 1 instead of multiplied *)
ZoomedViewport_DividesByZoomMinusOne(pos, zoom, width, height, res) ==
    << RDiv(RDiv(RMul(RNeg(pos[1]), width), RSub(zoom, R(1))), res[1]),
       RDiv(RDiv(RMul(RNeg(pos[2]), height), RSub(zoom, R(1))), res[2]),
       RMul(RDiv(RMul(width, width), res[1]), zoom),
       RMul(RDiv(RMul(height, height), res[2]), zoom) >>

(* zoomedViewport, part_000:226-231 *)
ZoomedViewport(pos, zoom, width, height, res) ==
    << RDiv(RMul(RMul(RNeg(pos[1]), RSub(zoom, R(1))), width), res[1]),
       RDiv(RMul(RMul(RNeg(pos[2]), RSub(zoom, R(1))), height), res[2]),
       RMul(RDiv(RMul(width, width), res[1]), zoom),
       RMul(RDiv(RMul(height, height), res[2]), zoom) >>

(* mutant: radius and outlineThickness are written without the pixel ratio *)
LensUniforms_UnscaledRadius(p, sz, pixelRatio, md, r) ==
    LET width == ScaledWidth(sz, pixelRatio)
        height == ScaledHeight(sz, pixelRatio)
    IN  [zoomedTexture |-> r.zoomTarget,
         originalTexture |-> r.defaultTarget,
         pos |-> PointerPx(p.position, pixelRatio),
         outlineColor |-> ColorSetHex(p.outlineColor),
         mag_resolution |-> ZoomedResolution(width, height, p.zoom, R(md[1]), R(md[2])),
         resolution |-> <<width, height>>,
         zoom |-> p.zoom,
         radius |-> R(p.radius),
         outlineThickness |-> R(p.outlineThickness),
         exp |-> R(p.exp)]

(* the lens uniforms written at part_000:214-223 *)
LensUniforms(p, sz, pixelRatio, md, r) ==
    LET width == ScaledWidth(sz, pixelRatio)
        height == ScaledHeight(sz, pixelRatio)
    IN  [zoomedTexture |-> r.zoomTarget,
         originalTexture |-> r.defaultTarget,
         pos |-> PointerPx(p.position, pixelRatio),
         outlineColor |-> ColorSetHex(p.outlineColor),
         mag_resolution |-> ZoomedResolution(width, height, p.zoom, R(md[1]), R(md[2])),
         resolution |-> <<width, height>>,
         zoom |-> p.zoom,
         radius |-> RMul(R(p.radius), pixelRatio),
         outlineThickness |-> RMul(R(p.outlineThickness), pixelRatio),
         exp |-> R(p.exp)]

(* the FXAA uniforms written at part_000:264-265 *)
FxaaUniforms(sz, pixelRatio, r) ==
    [tDiffuse |-> r.fxaaTarget,
     resolution |-> <<RDiv(R(1), ScaledWidth(sz, pixelRatio)),
                      RDiv(R(1), ScaledHeight(sz, pixelRatio))>>]

(* mutant: the scene background is ignored, the frame always clears to white *)
FrameClearColor_AlwaysWhite(bg) == WHITE

(* clearColor, part_000:243-248 *)
FrameClearColor(bg) == IF bg # <<>> THEN bg[1] ELSE WHITE

----------------------------------------------------------------------------
(* The frame callback as the sequence of renderer operations it performs *)

OpRender(scene, camera) == [op |-> "render", scene |-> scene, camera |-> camera]
OpTarget(t) == [op |-> "setRenderTarget", target |-> t]
OpClear(color, alpha) == [op |-> "setClearColor", color |-> color, alpha |-> alpha]
OpAutoClear(v) == [op |-> "setAutoClear", value |-> v]

(* mutant: the enabled flag is not consulted *)
IsDisabled_IgnoresEnabled(p, r) ==
    \/ p.position = <<>>
    \/ r.defaultTarget = 0
    \/ r.zoomTarget = 0
    \/ r.fxaaTarget = 0

(* mutant: the three targets are not checked *)
IsDisabled_IgnoresTargets(p, r) ==
    \/ ~p.enabled
    \/ p.position = <<>>

(* part_000:176 *)
IsDisabled(p, r) ==
    \/ ~p.enabled
    \/ p.position = <<>>
    \/ r.defaultTarget = 0
    \/ r.zoomTarget = 0
    \/ r.fxaaTarget = 0

(* part_000:178-180 *)
DisabledOps ==
    << OpTarget(SCREEN), OpRender("scene", "camera") >>

(* mutant: with antialias the FXAA pass is drawn into the filtered buffer
   instead of the screen *)
LensOps_FxaaOffscreen(p, sz, g, r) ==
    IF p.antialias
    THEN << [op |-> "setFxaaUniforms", value |-> FxaaUniforms(sz, g.pixelRatio, r)],
            OpTarget(r.fxaaTarget), OpRender("magnifyScene", "orthoCamera"),
            OpTarget(r.fxaaTarget), OpRender("fxaaScene", "orthoCamera") >>
    ELSE << OpTarget(SCREEN), OpRender("magnifyScene", "orthoCamera") >>

(* mutant: with antialias the lens pass is not redirected to the filtered
   buffer *)
LensOps_LensToScreen(p, sz, g, r) ==
    IF p.antialias
    THEN << [op |-> "setFxaaUniforms", value |-> FxaaUniforms(sz, g.pixelRatio, r)],
            OpTarget(SCREEN), OpRender("magnifyScene", "orthoCamera"),
            OpTarget(SCREEN), OpRender("fxaaScene", "orthoCamera") >>
    ELSE << OpTarget(SCREEN), OpRender("magnifyScene", "orthoCamera") >>

(* part_000:262-275 *)
LensOps(p, sz, g, r) ==
    IF p.antialias
    THEN << [op |-> "setFxaaUniforms", value |-> FxaaUniforms(sz, g.pixelRatio, r)],
            OpTarget(r.fxaaTarget), OpRender("magnifyScene", "orthoCamera"),
            OpTarget(SCREEN), OpRender("fxaaScene", "orthoCamera") >>
    ELSE << OpTarget(SCREEN), OpRender("magnifyScene", "orthoCamera") >>

(* mutant: the computed viewport is put on the original target *)
UniformOps_ViewportOnOriginal(p, sz, g, md, r) ==
    LET u == LensUniforms(p, sz, g.pixelRatio, md, r)
        vp == ZoomedViewport(u.pos, p.zoom, u.resolution[1], u.resolution[2],
                             u.mag_resolution)
    IN  << [op |-> "setUniforms", value |-> u],
           [op |-> "setViewport", target |-> r.defaultTarget, value |-> vp] >>

(* part_000:213-233: the lens uniforms, then the zoomed target's viewport *)
UniformOps(p, sz, g, md, r) ==
    LET u == LensUniforms(p, sz, g.pixelRatio, md, r)
        vp == ZoomedViewport(u.pos, p.zoom, u.resolution[1], u.resolution[2],
                             u.mag_resolution)
    IN  << [op |-> "setUniforms", value |-> u],
           [op |-> "setViewport", target |-> r.zoomTarget, value |-> vp] >>

(* part_000:235-249: autoClear forced on, the frame's clear colour set *)
SaveAndClearOps(bg) ==
    << OpAutoClear(TRUE), OpClear(FrameClearColor(bg), 1) >>

(* mutant: the zoomed pass runs before the original pass *)
ScenePassOps_ZoomedFirst(r) ==
    << OpTarget(r.zoomTarget), OpRender("scene", "camera"),
       OpTarget(r.defaultTarget), OpRender("scene", "camera") >>

(* part_000:251-257: the scene into the original, then into the zoomed target *)
ScenePassOps(r) ==
    << OpTarget(r.defaultTarget), OpRender("scene", "camera"),
       OpTarget(r.zoomTarget), OpRender("scene", "camera") >>

(* mutant: the colour is restored, with alpha 1.0 instead of the saved alpha *)
RestoreClearOps_OpaqueAlpha(g) ==
    << OpClear(g.clearColor, 1) >>

(* part_000:260: the clear colour and alpha read at part_000:239-240 *)
RestoreClearOps(g) ==
    << OpClear(g.clearColor, g.clearAlpha) >>

(* mutant: autoClear is left on instead of being restored from the backup *)
RestoreAutoClearOps_LeftOn(g) ==
    << OpAutoClear(TRUE) >>

(* part_000:277: autoClearBackup, read at part_000:235 *)
RestoreAutoClearOps(g) ==
    << OpAutoClear(g.autoClear) >>

(* part_000:183-277 *)
ActiveOps(p, sz, g, md, bg, r) ==
    UniformOps(p, sz, g, md, r)
    \o SaveAndClearOps(bg)
    \o ScenePassOps(r)
    \o RestoreClearOps(g)
    \o LensOps(p, sz, g, r)
    \o RestoreAutoClearOps(g)

(* mutant: the branch is latched once the lens has been drawn, so a later
   enabled = false is not seen *)
FrameOps_Latched(p, sz, g, md, bg, r) ==
    IF IsDisabled([p EXCEPT !.enabled = @ \/ uniforms.zoomedTexture # 0], r)
    THEN DisabledOps
    ELSE ActiveOps(p, sz, g, md, bg, r)

(* part_000:175-278 *)
FrameOps(p, sz, g, md, bg, r) ==
    IF IsDisabled(p, r) THEN DisabledOps ELSE ActiveOps(p, sz, g, md, bg, r)

(* the renderer-visible state the operations act on *)
Machine(g, h, u, f) == [gl |-> g, heap |-> h, uniforms |-> u, fxaaUniforms |-> f]

Apply(st, o) ==
    CASE o.op = "setRenderTarget" -> [st EXCEPT !.gl.target = o.target]
      [] o.op = "setAutoClear" -> [st EXCEPT !.gl.autoClear = o.value]
      [] o.op = "setClearColor" ->
            [st EXCEPT !.gl.clearColor = o.color, !.gl.clearAlpha = o.alpha]
      [] o.op = "setUniforms" -> [st EXCEPT !.uniforms = o.value]
      [] o.op = "setFxaaUniforms" -> [st EXCEPT !.fxaaUniforms = o.value]
      [] o.op = "setViewport" -> [st EXCEPT !.heap[o.target].viewport = o.value]
      [] o.op = "render" -> st

(* what one gl.render(scene, camera) call sees *)
RenderCall(st, o) ==
    [target |-> st.gl.target,
     scene |-> o.scene,
     camera |-> o.camera,
     autoClear |-> st.gl.autoClear,
     clearColor |-> st.gl.clearColor,
     clearAlpha |-> st.gl.clearAlpha,
     viewport |-> IF st.gl.target = SCREEN THEN <<>>
                  ELSE st.heap[st.gl.target].viewport,
     targetDisposed |-> IF st.gl.target = SCREEN THEN FALSE
                        ELSE st.heap[st.gl.target].disposed,
     samples |-> IF o.scene = "magnifyScene"
                 THEN <<st.uniforms.originalTexture, st.uniforms.zoomedTexture>>
                 ELSE IF o.scene = "fxaaScene"
                 THEN <<st.fxaaUniforms.tDiffuse>>
                 ELSE <<>>,
     material |-> IF o.scene = "magnifyScene" THEN st.uniforms
                  ELSE IF o.scene = "fxaaScene" THEN st.fxaaUniforms
                  ELSE <<>>]

RECURSIVE NRenders(_)
NRenders(ops) ==
    IF ops = <<>> THEN 0
    ELSE (IF Head(ops).op = "render" THEN 1 ELSE 0) + NRenders(Tail(ops))

(* Run the operations in order; the failAt-th render call throws (0: none),
   which ends the callback there. *)
RECURSIVE RunOps(_, _, _, _, _)
RunOps(st, ops, calls, trace, failAt) ==
    IF ops = <<>>
    THEN [st |-> st, calls |-> calls, trace |-> trace, outcome |-> "returned"]
    ELSE LET o == Head(ops) IN
         IF o.op = "render" /\ Len(calls) + 1 = failAt
         THEN [st |-> st, calls |-> calls, trace |-> trace, outcome |-> "threw"]
         ELSE RunOps(Apply(st, o), Tail(ops),
                     IF o.op = "render" THEN Append(calls, RenderCall(st, o)) ELSE calls,
                     Append(trace, o.op), failAt)

----------------------------------------------------------------------------
(* The component *)

NoFrame ==
    [ran |-> FALSE, branch |-> "none", previous |-> "none", outcome |-> "none",
     pre |-> <<>>, calls |-> <<>>, trace |-> <<>>]

(* magnifyMaterial, part_000:79-97: built once from the first render's props *)
InitialUniforms(p) ==
    [zoomedTexture |-> 0,
     originalTexture |-> 0,
     pos |-> <<R(0), R(0)>>,
     outlineColor |-> <<R(0), R(0), R(0)>>,
     mag_resolution |-> <<R(0), R(0)>>,
     resolution |-> <<R(0), R(0)>>,
     zoom |-> p.zoom,
     radius |-> R(p.radius),
     outlineThickness |-> R(p.outlineThickness),
     exp |-> R(p.exp)]

(* fxaaMaterial, part_000:99-109 *)
InitialFxaaUniforms ==
    [tDiffuse |-> 0, resolution |-> <<R(0), R(0)>>]

Init ==
    /\ \E pos \in InitialPositions : props = [DefaultProps EXCEPT !.position = pos]
    /\ \E s \in InitialScreenSizes :
          size = [width |-> s[1], height |-> s[2], obj |-> 0]
    /\ \E pr \in InitialPixelRatios, h \in HostSetups :
          /\ gl = [pixelRatio |-> pr, autoClear |-> h.autoClear,
                   clearColor |-> h.clear[1], clearAlpha |-> h.clear[2],
                   target |-> SCREEN]
          /\ background = h.background
    /\ maxDims \in MaxViewportDims
    /\ heap = <<>>
    /\ refs = [defaultTarget |-> 0, zoomTarget |-> 0, fxaaTarget |-> 0]
    /\ uniforms = InitialUniforms(props)
    /\ fxaaUniforms = InitialFxaaUniforms
    /\ deps = [size |-> -1, zoom |-> <<0, 1>>, exp |-> 0]
    /\ life = "rendered"
    /\ pending = TRUE
    /\ events = 0
    /\ lastBranch = "none"
    /\ lastFrame = NoFrame

(* mutant: a later run only disposes the previous targets and keeps the refs *)
AllocEffect_KeepsDisposedRefs(h, r, sz, pixelRatio, firstRun) ==
    LET width == ScaledWidth(sz, pixelRatio)
        height == ScaledHeight(sz, pixelRatio)
        n == Len(h)
    IN  IF firstRun
        THEN [heap |-> h \o << NewRenderTarget(width, height),
                               NewRenderTarget(width, height),
                               NewRenderTarget(width, height) >>,
              refs |-> [defaultTarget |-> n + 1, zoomTarget |-> n + 2,
                        fxaaTarget |-> n + 3]]
        ELSE [heap |-> Dispose(h, RefIds(r)), refs |-> r]

(* mutant: the effect has no cleanup, the previous targets are only replaced *)
AllocEffect_NoCleanup(h, r, sz, pixelRatio, firstRun) ==
    LET width == ScaledWidth(sz, pixelRatio)
        height == ScaledHeight(sz, pixelRatio)
        n == Len(h)
    IN  [heap |-> h \o << NewRenderTarget(width, height),
                          NewRenderTarget(width, height),
                          NewRenderTarget(width, height) >>,
         refs |-> [defaultTarget |-> n + 1, zoomTarget |-> n + 2,
                   fxaaTarget |-> n + 3]]

(* useEffect(..., [gl, size]), part_000:132-154: the cleanup of the previous
   run disposes the three targets, then three new ones are constructed. *)
AllocEffect(h, r, sz, pixelRatio, firstRun) ==
    LET width == ScaledWidth(sz, pixelRatio)
        height == ScaledHeight(sz, pixelRatio)
        cleaned == IF firstRun THEN h ELSE Dispose(h, RefIds(r))
        n == Len(cleaned)
    IN  [heap |-> cleaned \o << NewRenderTarget(width, height),
                                NewRenderTarget(width, height),
                                NewRenderTarget(width, height) >>,
         refs |-> [defaultTarget |-> n + 1, zoomTarget |-> n + 2,
                   fxaaTarget |-> n + 3]]

(* useEffect(..., [size, gl]), part_000:157-167 *)
ResizeEffect(h, r, sz, pixelRatio) ==
    IF r.defaultTarget = 0 \/ r.zoomTarget = 0 \/ r.fxaaTarget = 0 THEN h
    ELSE LET width == ScaledWidth(sz, pixelRatio)
             height == ScaledHeight(sz, pixelRatio)
         IN  [i \in DOMAIN h |->
                 IF i \in RefIds(r) THEN SetSize(h[i], width, height) ELSE h[i]]

(* useEffect(..., [magnifyMaterial, zoom, exp]), part_000:170-173 *)
UniformEffect(u, p) ==
    [u EXCEPT !.zoom = p.zoom, !.exp = R(p.exp)]

(* the [gl, size] dependencies changed: size is compared by identity *)
SizeDepsChanged == life = "rendered" \/ deps.size # size.obj

UniformDepsChanged ==
    life = "rendered" \/ deps.zoom # props.zoom \/ deps.exp # props.exp

(* React runs the passive effects of the last commit, in declaration order,
   each only if one of its dependencies changed. *)
FlushEffects ==
    /\ life # "unmounted"
    /\ pending
    /\ LET a == IF SizeDepsChanged
                THEN AllocEffect(heap, refs, size, gl.pixelRatio, life = "rendered")
                ELSE [heap |-> heap, refs |-> refs]
           h2 == IF SizeDepsChanged
                 THEN ResizeEffect(a.heap, a.refs, size, gl.pixelRatio)
                 ELSE a.heap
       IN  /\ heap' = h2
           /\ refs' = a.refs
    /\ uniforms' = IF UniformDepsChanged THEN UniformEffect(uniforms, props)
                   ELSE uniforms
    /\ deps' = [size |-> size.obj, zoom |-> props.zoom, exp |-> props.exp]
    /\ life' = "mounted"
    /\ pending' = FALSE
    /\ lastFrame' = NoFrame
    /\ UNCHANGED <<props, size, gl, maxDims, background, fxaaUniforms, events,
                   lastBranch>>

(* a host event commits: the component re-renders, its effects are pending.
   React flushes the passive effects of the previous commit before it renders
   again, so no commit finds effects still pending. *)
Commit ==
    /\ life # "unmounted"
    /\ ~pending
    /\ events < MaxEvents
    /\ events' = events + 1
    /\ pending' = TRUE
    /\ lastFrame' = NoFrame
    /\ UNCHANGED <<maxDims, background, heap, refs, uniforms, fxaaUniforms,
                   deps, life, lastBranch>>

SetEnabled(b) ==
    /\ b # props.enabled
    /\ props' = [props EXCEPT !.enabled = b]
    /\ Commit
    /\ UNCHANGED <<size, gl>>

SetPosition(pos) ==
    /\ pos # props.position
    /\ props' = [props EXCEPT !.position = pos]
    /\ Commit
    /\ UNCHANGED <<size, gl>>

SetZoom(z) ==
    /\ z # props.zoom
    /\ props' = [props EXCEPT !.zoom = z]
    /\ Commit
    /\ UNCHANGED <<size, gl>>

SetAntialias(b) ==
    /\ b # props.antialias
    /\ props' = [props EXCEPT !.antialias = b]
    /\ Commit
    /\ UNCHANGED <<size, gl>>

SetStyle(s) ==
    /\ s # StyleOf(props)
    /\ props' = WithStyle(props, s)
    /\ Commit
    /\ UNCHANGED <<size, gl>>

(* a fresh object identity: one that neither the current size nor the
   effect's remembered dependency carries *)
FreshObj == CHOOSE i \in 0..2 : i # size.obj /\ i # deps.size

(* the host stores a new size object (possibly with the same numbers) *)
Resize(s) ==
    /\ Len(heap) \div 3 + 1 <= MaxAllocs
    /\ size' = [width |-> s[1], height |-> s[2], obj |-> FreshObj]
    /\ Commit
    /\ UNCHANGED <<props, gl>>

(* gl.setPixelRatio: the size object stays the same *)
SetPixelRatio(pr) ==
    /\ pr # gl.pixelRatio
    /\ gl' = [gl EXCEPT !.pixelRatio = pr]
    /\ Commit
    /\ UNCHANGED <<props, size>>

(* the useFrame callback, part_000:175-278 *)
Frame(failAt) ==
    /\ life # "unmounted"
    /\ LET ops == FrameOps(props, size, gl, maxDims, background, refs)
           pre == Machine(gl, heap, uniforms, fxaaUniforms)
       IN  /\ failAt <= NRenders(ops)
           /\ \E run \in {RunOps(pre, ops, <<>>, <<>>, failAt)} :
                  /\ gl' = run.st.gl
                  /\ heap' = run.st.heap
                  /\ uniforms' = run.st.uniforms
                  /\ fxaaUniforms' = run.st.fxaaUniforms
                  /\ lastBranch' = IF IsDisabled(props, refs) THEN "disabled"
                                    ELSE "active"
                  /\ lastFrame' =
                        [ran |-> TRUE,
                         branch |-> lastBranch',
                         previous |-> lastBranch,
                         outcome |-> run.outcome,
                         pre |-> pre,
                         calls |-> run.calls,
                         trace |-> run.trace]
    /\ UNCHANGED <<props, size, maxDims, background, refs, deps, life,
                   pending, events>>

(* unmount: the cleanup of the allocation effect, part_000:149-153 *)
Unmount ==
    /\ life = "mounted"
    /\ ~pending
    /\ heap' = Dispose(heap, RefIds(refs))
    /\ life' = "unmounted"
    /\ pending' = FALSE
    /\ lastFrame' = NoFrame
    /\ UNCHANGED <<props, size, gl, maxDims, background, refs, uniforms,
                   fxaaUniforms, deps, events, lastBranch>>

(* a frame in which one of the gl.render calls throws; explored while the
   event budget is not used up, which keeps the state space finite and small *)
FrameThrows ==
    /\ events < MaxEvents
    /\ \E failAt \in 1..4 : Frame(failAt)

Next ==
    \/ FlushEffects
    \/ \E b \in BOOLEAN : SetEnabled(b)
    \/ \E pos \in Positions : SetPosition(pos)
    \/ \E z \in Zooms : SetZoom(z)
    \/ \E b \in BOOLEAN : SetAntialias(b)
    \/ \E s \in Styles : SetStyle(s)
    \/ \E s \in ScreenSizes : Resize(s)
    \/ \E pr \in PixelRatios : SetPixelRatio(pr)
    \/ Frame(0)
    \/ Unmount

Spec == Init /\ [][Next]_vars

NextThrow == Next \/ FrameThrows

SpecThrow == Init /\ [][NextThrow]_vars

----------------------------------------------------------------------------
(* Vocabulary of the properties *)

FrameRan == lastFrame.ran
FrameReturned == lastFrame.ran /\ lastFrame.outcome = "returned"
ActiveFrame == FrameReturned /\ lastFrame.branch = "active"
AllTargetsSet ==
    refs.defaultTarget # 0 /\ refs.zoomTarget # 0 /\ refs.fxaaTarget # 0
ConfigInert == ~props.enabled \/ props.position = <<>>

(* the screen size in device pixels and the hardware limits, as numbers *)
W == RMul(R(size.width), gl.pixelRatio)
H == RMul(R(size.height), gl.pixelRatio)
MaxW == R(maxDims[1])
MaxH == R(maxDims[2])

Floor(a) == a[1] \div a[2]

Offscreen(calls) == { i \in 1..Len(calls) : calls[i].target # SCREEN }
OnScreen(calls) == { i \in 1..Len(calls) : calls[i].target = SCREEN }

----------------------------------------------------------------------------
(* C1: a frame with enabled = false or position = null performs exactly one
   render call, of the host scene with the host camera to the screen; it
   renders into no buffer and leaves the lens uniforms, the FXAA uniforms,
   every buffer (with its viewport), the clear colour and alpha and the
   autoClear flag as they were before the frame. *)
C1_DisabledFrameIsPlainRender ==
    (FrameRan /\ ConfigInert) =>
        /\ lastFrame.outcome = "returned"
        /\ Len(lastFrame.calls) = 1
        /\ lastFrame.calls[1].target = SCREEN
        /\ lastFrame.calls[1].scene = "scene"
        /\ lastFrame.calls[1].camera = "camera"
        /\ lastFrame.calls[1].clearColor = lastFrame.pre.gl.clearColor
        /\ lastFrame.calls[1].clearAlpha = lastFrame.pre.gl.clearAlpha
        /\ lastFrame.calls[1].autoClear = lastFrame.pre.gl.autoClear
        /\ Offscreen(lastFrame.calls) = {}
        /\ uniforms = lastFrame.pre.uniforms
        /\ fxaaUniforms = lastFrame.pre.fxaaUniforms
        /\ heap = lastFrame.pre.heap
        /\ gl.clearColor = lastFrame.pre.gl.clearColor
        /\ gl.clearAlpha = lastFrame.pre.gl.clearAlpha
        /\ gl.autoClear = lastFrame.pre.gl.autoClear

(* a disabled frame with a pointer position, run after an active frame has
   written the uniforms and with all three buffers allocated *)
C1_Witness ==
    /\ FrameRan
    /\ ~props.enabled
    /\ props.position # <<>>
    /\ AllTargetsSet
    /\ uniforms.zoomedTexture # 0

(* C2: in an active frame with zoom >= 1 the zoomed resolution written to
   mag_resolution does not exceed maxViewportDims in either dimension. *)
C2_ResolutionWithinLimits ==
    (ActiveFrame /\ RLe(R(1), props.zoom)) =>
        /\ RLe(uniforms.mag_resolution[1], MaxW)
        /\ RLe(uniforms.mag_resolution[2], MaxH)

(* an active frame at zoom >= 1 whose zoomed size exceeded a limit, so that
   the resolution was scaled down *)
C2_Witness ==
    /\ ActiveFrame
    /\ RLe(R(1), props.zoom)
    /\ RGt(RMul(W, props.zoom), MaxW)
    /\ uniforms.mag_resolution # <<W, H>>

(* C3: the zoomed resolution is (W, H) when W*zoom and H*zoom both fit, and
   (W*scale, H*scale) with scale = min(maxW/(W*zoom), maxH/(H*zoom))
   otherwise; the aspect ratio is kept; W = 4000, H = 3000, zoom = 3,
   max = (8192, 4096) gives scale 4096/9000, about (1820, 1365). *)
C3_ResolutionReference ==
    ActiveFrame =>
        LET zw == RMul(W, props.zoom)
            zh == RMul(H, props.zoom)
            sx == RDiv(MaxW, zw)
            sy == RDiv(MaxH, zh)
            scale == IF RLe(sx, sy) THEN sx ELSE sy
            res == uniforms.mag_resolution
        IN  /\ (RLe(zw, MaxW) /\ RLe(zh, MaxH)) => res = <<W, H>>
            /\ ~(RLe(zw, MaxW) /\ RLe(zh, MaxH)) =>
                   res = <<RMul(W, scale), RMul(H, scale)>>
            /\ RMul(res[1], H) = RMul(res[2], W)
            /\ (W = R(4000) /\ H = R(3000) /\ props.zoom = R(3)
                  /\ maxDims = <<8192, 4096>>) =>
                   /\ scale = Norm(4096, 9000)
                   /\ res = <<Norm(4000 * 4096, 9000), Norm(3000 * 4096, 9000)>>
                   /\ Floor(res[1]) = 1820
                   /\ Floor(res[2]) = 1365

(* the 4000 x 3000, zoom 3, (8192, 4096) scenario in an active frame *)
C3_Witness ==
    /\ ActiveFrame
    /\ W = R(4000) /\ H = R(3000)
    /\ props.zoom = R(3)
    /\ maxDims = <<8192, 4096>>

(* C4: in an active frame the zoomed buffer's viewport is
   (-p.x*(zoom-1)*W/resW, -p.y*(zoom-1)*H/resH, W*W/resW*zoom, H*H/resH*zoom)
   with p = position * pixelRatio; pointer (0,0) gives x = y = 0; the
   800 x 600, ratio 1, zoom 2, (4096, 4096), pointer (400, 300) scenario
   gives (-400, -300, 1600, 1200). *)
C4_ViewportFormula ==
    ActiveFrame =>
        LET px == RMul(R(props.position[1]), gl.pixelRatio)
            py == RMul(R(props.position[2]), gl.pixelRatio)
            z == props.zoom
            resW == uniforms.mag_resolution[1]
            resH == uniforms.mag_resolution[2]
            vp == heap[refs.zoomTarget].viewport
        IN  /\ vp[1] = RDiv(RMul(RMul(RNeg(px), RSub(z, R(1))), W), resW)
            /\ vp[2] = RDiv(RMul(RMul(RNeg(py), RSub(z, R(1))), H), resH)
            /\ vp[3] = RMul(RDiv(RMul(W, W), resW), z)
            /\ vp[4] = RMul(RDiv(RMul(H, H), resH), z)
            /\ lastFrame.calls[2].viewport = vp
            /\ props.position = <<0, 0>> => (vp[1] = R(0) /\ vp[2] = R(0))
            /\ (size.width = 800 /\ size.height = 600 /\ gl.pixelRatio = R(1)
                  /\ z = R(2) /\ maxDims = <<4096, 4096>>
                  /\ props.position = <<400, 300>>) =>
                   vp = <<R(-400), R(-300), R(1600), R(1200)>>

(* the 800 x 600, zoom 2, pointer (400, 300) scenario in an active frame *)
C4_Witness ==
    /\ ActiveFrame
    /\ size.width = 800 /\ size.height = 600
    /\ gl.pixelRatio = R(1)
    /\ props.zoom = R(2)
    /\ maxDims = <<4096, 4096>>
    /\ props.position = <<400, 300>>
    /\ heap[refs.zoomTarget].viewport = <<R(-400), R(-300), R(1600), R(1200)>>

(* C5: after every frame callback that returns, active or disabled and with
   or without a solid scene background, the renderer's clear colour and
   clear alpha equal those from immediately before the callback. *)
C5_ClearColorRestored ==
    FrameReturned =>
        /\ gl.clearColor = lastFrame.pre.gl.clearColor
        /\ gl.clearAlpha = lastFrame.pre.gl.clearAlpha

(* an active frame whose scene passes were cleared with another colour and
   alpha than the renderer had before *)
C5_Witness ==
    /\ ActiveFrame
    /\ lastFrame.calls[1].clearColor # lastFrame.pre.gl.clearColor
    /\ lastFrame.calls[1].clearAlpha # lastFrame.pre.gl.clearAlpha
    /\ lastFrame.calls[2].clearColor # lastFrame.pre.gl.clearColor

(* C6: in an active frame the lens pass targets the filtered buffer with
   antialias and the screen without; with antialias there are three
   offscreen passes and one screen pass, without it two and one; the FXAA
   pass samples the filtered buffer with resolution (1/W, 1/H); the lens
   uniforms of the lens pass are the same whichever value antialias has. *)
C6_AntialiasRouting ==
    ActiveFrame =>
        LET calls == lastFrame.calls IN
        /\ Len(calls) = IF props.antialias THEN 4 ELSE 3
        /\ Cardinality(Offscreen(calls)) = IF props.antialias THEN 3 ELSE 2
        /\ Cardinality(OnScreen(calls)) = 1
        /\ calls[3].scene = "magnifyScene"
        /\ calls[3].camera = "orthoCamera"
        /\ calls[3].target = IF props.antialias THEN refs.fxaaTarget ELSE SCREEN
        /\ props.antialias =>
              /\ calls[4].scene = "fxaaScene"
              /\ calls[4].camera = "orthoCamera"
              /\ calls[4].target = SCREEN
              /\ calls[4].samples = <<refs.fxaaTarget>>
              /\ calls[4].material.resolution = <<RDiv(R(1), W), RDiv(R(1), H)>>
        /\ calls[3].material =
              LensUniforms([props EXCEPT !.antialias = TRUE], size,
                           gl.pixelRatio, maxDims, refs)
        /\ calls[3].material =
              LensUniforms([props EXCEPT !.antialias = FALSE], size,
                           gl.pixelRatio, maxDims, refs)

(* an active frame without antialias, after a frame with antialias has run *)
C6_Witness ==
    /\ ActiveFrame
    /\ ~props.antialias
    /\ fxaaUniforms.tDiffuse # 0
    /\ Len(lastFrame.calls) = 3

(* C7: allocation is idempotent: a run of the allocation effect with the
   same screen size and pixel ratio values as its previous run disposes and
   recreates nothing.  Stated on the buffers: no allocation of three buffers
   directly follows an allocation of the same size. *)
C7_AllocationIdempotent ==
    \A i \in DOMAIN heap :
        (i + 3 \in DOMAIN heap) =>
            ~(heap[i].width = heap[i + 3].width /\ heap[i].height = heap[i + 3].height)

(* C8: whenever an active frame runs, all three buffers have the allocated
   size (W, H) = screen size times pixel ratio, the value written to the
   lens resolution uniform.  Stated for the frames that run with every
   effect flushed, the case most favourable to the claim. *)
C8_BuffersMatchScreen ==
    (ActiveFrame /\ ~pending) =>
        \A i \in RefIds(refs) :
            /\ heap[i].width = uniforms.resolution[1]
            /\ heap[i].height = uniforms.resolution[2]
            /\ heap[i].width = W
            /\ heap[i].height = H

(* C9: in an active frame the operations run in the order of the source:
   scene into original, scene into zoomed, clear colour restored, lens pass
   reading original and zoomed, then (with antialias only) the FXAA pass
   reading filtered; nothing is repeated, and every pass that samples a
   buffer comes after the pass of the same frame that rendered into it. *)
C9_PassOrder ==
    ActiveFrame =>
        LET calls == lastFrame.calls IN
        /\ lastFrame.trace =
              << "setUniforms", "setViewport", "setAutoClear", "setClearColor",
                 "setRenderTarget", "render", "setRenderTarget", "render",
                 "setClearColor" >>
              \o (IF props.antialias
                  THEN << "setFxaaUniforms", "setRenderTarget", "render",
                          "setRenderTarget", "render" >>
                  ELSE << "setRenderTarget", "render" >>)
              \o << "setAutoClear" >>
        /\ calls[1].scene = "scene" /\ calls[1].target = refs.defaultTarget
        /\ calls[2].scene = "scene" /\ calls[2].target = refs.zoomTarget
        /\ calls[1].clearAlpha = 1 /\ calls[2].clearAlpha = 1
        /\ calls[3].scene = "magnifyScene"
        /\ calls[3].clearColor = lastFrame.pre.gl.clearColor
        /\ calls[3].clearAlpha = lastFrame.pre.gl.clearAlpha
        /\ calls[3].samples = <<refs.defaultTarget, refs.zoomTarget>>
        /\ \A k \in 1..Len(calls) :
              \A j \in 1..Len(calls[k].samples) :
                 \E w \in 1..(k - 1) : calls[w].target = calls[k].samples[j]
        /\ \A k, m \in 1..Len(calls) :
              (k # m) => (calls[k].target # calls[m].target)

(* an active frame with antialias: four passes, the last sampling filtered *)
C9_Witness ==
    /\ ActiveFrame
    /\ props.antialias
    /\ Len(lastFrame.calls) = 4
    /\ lastFrame.calls[4].samples = <<lastFrame.calls[3].target>>

(* C10: the branch is decided anew in every frame from the current props:
   with enabled = false or position = null the frame is a Disabled frame
   (one render of the scene to the screen, nothing else), otherwise, the
   buffers being there, an Active frame running the whole pipeline; no
   frame mixes the two, whatever frames ran before. *)
C10_HardBranch ==
    FrameRan =>
        IF ConfigInert \/ ~AllTargetsSet
        THEN /\ lastFrame.branch = "disabled"
             /\ lastFrame.trace = << "setRenderTarget", "render" >>
             /\ Len(lastFrame.calls) = 1
             /\ lastFrame.calls[1].target = SCREEN
             /\ lastFrame.calls[1].scene = "scene"
        ELSE /\ lastFrame.branch = "active"
             /\ Len(lastFrame.calls) = IF props.antialias THEN 4 ELSE 3
             /\ lastFrame.calls[1].target = refs.defaultTarget
             /\ lastFrame.calls[2].target = refs.zoomTarget
             /\ lastFrame.calls[Len(lastFrame.calls)].target = SCREEN
             /\ lastFrame.calls[Len(lastFrame.calls)].scene # "scene"
             /\ uniforms.zoomedTexture = refs.zoomTarget

(* an active frame directly after a Disabled frame that itself came after
   an active frame (the lens uniforms were already written): the effect was
   switched off and on again *)
C10_Witness ==
    /\ ActiveFrame
    /\ lastFrame.previous = "disabled"
    /\ AllTargetsSet
    /\ lastFrame.pre.uniforms.zoomedTexture = refs.zoomTarget

(* C11: a frame that runs while any of the three buffers is absent (before
   the allocation effect has run) is a Disabled frame even with enabled =
   true and a position: one render of the scene to the screen, the callback
   returns, and no buffer or uniform is touched. *)
C11_MissingBufferFallsBack ==
    (FrameRan /\ ~AllTargetsSet) =>
        /\ lastFrame.branch = "disabled"
        /\ lastFrame.outcome = "returned"
        /\ lastFrame.trace = << "setRenderTarget", "render" >>
        /\ Len(lastFrame.calls) = 1
        /\ lastFrame.calls[1].target = SCREEN
        /\ lastFrame.calls[1].scene = "scene"
        /\ lastFrame.calls[1].camera = "camera"
        /\ uniforms = lastFrame.pre.uniforms
        /\ fxaaUniforms = lastFrame.pre.fxaaUniforms
        /\ heap = lastFrame.pre.heap
        /\ gl.autoClear = lastFrame.pre.gl.autoClear
        /\ gl.clearColor = lastFrame.pre.gl.clearColor
        /\ gl.clearAlpha = lastFrame.pre.gl.clearAlpha

(* a frame before the allocation effect has run, with enabled = true and a
   pointer position *)
C11_Witness ==
    /\ FrameRan
    /\ life = "rendered"
    /\ refs.defaultTarget = 0 /\ refs.zoomTarget = 0 /\ refs.fxaaTarget = 0
    /\ props.enabled
    /\ props.position # <<>>

(* C12: in an active frame autoClear is true during every render call of
   the sequence (original, zoomed, lens, FXAA), and after the callback
   returns autoClear has the value it had immediately before the frame,
   whether that was true or false. *)
C12_AutoClearForcedAndRestored ==
    ActiveFrame =>
        /\ \A k \in 1..Len(lastFrame.calls) : lastFrame.calls[k].autoClear = TRUE
        /\ gl.autoClear = lastFrame.pre.gl.autoClear

(* an active frame with antialias that started with autoClear = false *)
C12_Witness ==
    /\ ActiveFrame
    /\ lastFrame.pre.gl.autoClear = FALSE
    /\ Len(lastFrame.calls) = 4
    /\ lastFrame.calls[4].autoClear = TRUE
    /\ gl.autoClear = FALSE

(* C13: every buffer ever allocated is disposed: when the allocation effect
   runs again the three previous buffers are disposed before the new ones
   are created, so the only buffers not disposed are the three current
   ones; after teardown no buffer at all is left undisposed. *)
C13_EveryBufferDisposed ==
    /\ \A i \in DOMAIN heap : (i \notin RefIds(refs)) => heap[i].disposed
    /\ Len(heap) > 0 => Cardinality(RefIds(refs)) = 3
    /\ life = "unmounted" => \A i \in DOMAIN heap : heap[i].disposed

(* torn down after a reallocation: six buffers were allocated *)
C13_Witness ==
    /\ life = "unmounted"
    /\ Len(heap) >= 6
    /\ \A i \in DOMAIN heap : heap[i].disposed

(* C14: in every active frame with zoom >= 1, also when W*zoom or H*zoom
   exceeds a limit, the viewport rectangle applied to the zoomed buffer is
   at most maxViewportDims wide and high. *)
C14_ViewportWithinLimits ==
    (ActiveFrame /\ RLe(R(1), props.zoom)) =>
        /\ RLe(heap[refs.zoomTarget].viewport[3], MaxW)
        /\ RLe(heap[refs.zoomTarget].viewport[4], MaxH)

(* C15: for every zoom, zoom <= 1 included, with W, H and the limits
   positive, resW and resH are strictly positive and no division of the
   scale and viewport computation has a zero divisor (every result is
   finite); with zoom = 1 and no downscaling the viewport is (0, 0, W, H). *)
C15_NoZeroDivisor ==
    ActiveFrame =>
        LET res == uniforms.mag_resolution
            vp == heap[refs.zoomTarget].viewport
            zw == RMul(W, props.zoom)
            zh == RMul(H, props.zoom)
        IN  /\ Finite(res[1]) /\ RLt(R(0), res[1])
            /\ Finite(res[2]) /\ RLt(R(0), res[2])
            /\ (RGt(zw, MaxW) \/ RGt(zh, MaxH)) => (zw # R(0) /\ zh # R(0))
            /\ \A k \in 1..4 : Finite(vp[k])
            /\ (props.zoom = R(1) /\ res = <<W, H>>) => vp = <<R(0), R(0), W, H>>

(* an active frame at zoom 1/2: the offset is positive *)
C15_Witness ==
    /\ ActiveFrame
    /\ RLt(props.zoom, R(1))
    /\ props.position = <<400, 300>>
    /\ RLt(R(0), heap[refs.zoomTarget].viewport[1])

(* C16: in every active frame the two offscreen scene passes are cleared
   with one colour at alpha 1.0, the scene background when it is a solid
   colour and white otherwise; the lens pass and the FXAA pass run with the
   clear colour and alpha the renderer had before the frame. *)
C16_OffscreenClearColor ==
    ActiveFrame =>
        LET calls == lastFrame.calls
            expected == IF background # <<>> THEN background[1] ELSE WHITE
        IN  /\ Len(calls) >= 3
            /\ \A i \in 1..2 :
                  /\ calls[i].scene = "scene"
                  /\ calls[i].target # SCREEN
                  /\ calls[i].clearColor = expected
                  /\ calls[i].clearAlpha = 1
            /\ \A i \in 3..Len(calls) :
                  /\ calls[i].scene \in {"magnifyScene", "fxaaScene"}
                  /\ calls[i].clearColor = lastFrame.pre.gl.clearColor
                  /\ calls[i].clearAlpha = lastFrame.pre.gl.clearAlpha

(* an active frame over a solid background that differs from white and from
   the host's clear colour, whose alpha is not 1, with an FXAA pass *)
C16_Witness ==
    /\ ActiveFrame
    /\ background # <<>>
    /\ background[1] # WHITE
    /\ background[1] # lastFrame.pre.gl.clearColor
    /\ lastFrame.pre.gl.clearAlpha # 1
    /\ Len(lastFrame.calls) = 4
    /\ lastFrame.calls[2].clearColor = background[1]

(* C17: whenever the lens pass is rendered, each lens uniform is the value
   derived from the props, the size, the pixel ratio and the limits of that
   frame: pos = position * pixelRatio, zoom, exp, radius * pixelRatio,
   outlineThickness * pixelRatio, outlineColor the colour of the packed
   integer, mag_resolution = (resW, resH), resolution = (W, H); nothing is
   carried over from an earlier frame or an earlier pixel ratio. *)
C17_LensUniformsFresh ==
    FrameRan =>
        \A i \in 1..Len(lastFrame.calls) :
            lastFrame.calls[i].scene = "magnifyScene" =>
                LET u == lastFrame.calls[i].material
                    pr == gl.pixelRatio
                    zw == RMul(W, props.zoom)
                    zh == RMul(H, props.zoom)
                    sx == RDiv(MaxW, zw)
                    sy == RDiv(MaxH, zh)
                    scale == IF RLe(sx, sy) THEN sx ELSE sy
                    fits == RLe(zw, MaxW) /\ RLe(zh, MaxH)
                    c == props.outlineColor
                IN  /\ props.position # <<>>
                    /\ u.pos = << RMul(R(props.position[1]), pr),
                                  RMul(R(props.position[2]), pr) >>
                    /\ u.zoom = props.zoom
                    /\ u.exp = R(props.exp)
                    /\ u.radius = RMul(R(props.radius), pr)
                    /\ u.outlineThickness = RMul(R(props.outlineThickness), pr)
                    /\ u.outlineColor = << Norm((c \div 65536) % 256, 255),
                                           Norm((c \div 256) % 256, 255),
                                           Norm(c % 256, 255) >>
                    /\ u.mag_resolution = IF fits THEN <<W, H>>
                                          ELSE <<RMul(W, scale), RMul(H, scale)>>
                    /\ u.resolution = <<W, H>>

(* a lens pass at pixel ratio 2 after an earlier active frame had written
   other values of radius and outlineThickness *)
C17_Witness ==
    /\ ActiveFrame
    /\ gl.pixelRatio = R(2)
    /\ \E i \in 1..Len(lastFrame.calls) : lastFrame.calls[i].scene = "magnifyScene"
    /\ lastFrame.pre.uniforms.resolution # <<R(0), R(0)>>
    /\ lastFrame.pre.uniforms.radius # uniforms.radius
    /\ lastFrame.pre.uniforms.outlineThickness # uniforms.outlineThickness
    /\ uniforms.radius = RMul(R(props.radius), R(2))

(* C18: when a render call of the active sequence throws, the callback ends
   there (no later pass runs, nothing is retried) and the renderer's
   autoClear flag, clear colour and clear alpha have the values they had
   before the frame. *)
C18_RestoredOnFailure ==
    (FrameRan /\ lastFrame.branch = "active" /\ lastFrame.outcome = "threw") =>
        /\ Len(lastFrame.calls) < 4
        /\ gl.autoClear = lastFrame.pre.gl.autoClear
        /\ gl.clearColor = lastFrame.pre.gl.clearColor
        /\ gl.clearAlpha = lastFrame.pre.gl.clearAlpha

(* C19: the viewport computation touches only the zoomed buffer: the
   original and the filtered buffer keep their full-buffer viewport after
   any sequence of frames, the original pass is rendered with that full
   viewport, and both scene passes of a frame render the same scene with the
   same camera. *)
C19_OnlyZoomedViewportChanges ==
    /\ \A id \in {refs.defaultTarget, refs.fxaaTarget} \ {0} :
          heap[id].viewport = <<R(0), R(0), heap[id].width, heap[id].height>>
    /\ ActiveFrame =>
          LET calls == lastFrame.calls
              orig == heap[refs.defaultTarget]
          IN  /\ calls[1].target = refs.defaultTarget
              /\ calls[1].viewport = <<R(0), R(0), orig.width, orig.height>>
              /\ calls[2].target = refs.zoomTarget
              /\ calls[2].viewport = heap[refs.zoomTarget].viewport
              /\ calls[1].scene = calls[2].scene
              /\ calls[1].camera = calls[2].camera
              /\ \A id \in DOMAIN heap :
                    id # refs.zoomTarget =>
                        heap[id].viewport = lastFrame.pre.heap[id].viewport

(* a second active frame in a row whose zoomed viewport is not the full
   buffer *)
C19_Witness ==
    /\ ActiveFrame
    /\ lastFrame.previous = "active"
    /\ LET z == heap[refs.zoomTarget]
       IN  z.viewport # <<R(0), R(0), z.width, z.height>>
    /\ lastFrame.calls[2].viewport # lastFrame.calls[1].viewport

(* C20: the pointer is the fixed point of the magnification. With
   resolution = (W, H) the point drawn at p in the original buffer is drawn
   at p in the zoomed buffer: viewport.x + p.x * viewport.w / W = p.x and
   viewport.y + p.y * viewport.h / H = p.y. With downscaling the image of p
   is (p.x * W / resW, p.y * H / resH). *)
C20_PointerFixedPoint ==
    ActiveFrame =>
        LET vp == heap[refs.zoomTarget].viewport
            res == uniforms.mag_resolution
            px == RMul(R(props.position[1]), gl.pixelRatio)
            py == RMul(R(props.position[2]), gl.pixelRatio)
            imageX == RSub(vp[1], RNeg(RDiv(RMul(px, vp[3]), W)))
            imageY == RSub(vp[2], RNeg(RDiv(RMul(py, vp[4]), H)))
        IN  /\ res = <<W, H>> => (imageX = px /\ imageY = py)
            /\ res # <<W, H>> =>
                  /\ imageX = RDiv(RMul(px, W), res[1])
                  /\ imageY = RDiv(RMul(py, H), res[2])

(* an active frame with downscaling right after one without, the pointer
   away from the origin and zoom other than 1 *)
C20_Witness ==
    /\ ActiveFrame
    /\ lastFrame.previous = "active"
    /\ props.position = <<400, 300>>
    /\ props.zoom # R(1)
    /\ uniforms.mag_resolution # <<W, H>>
    /\ lastFrame.pre.uniforms.mag_resolution = lastFrame.pre.uniforms.resolution
    /\ heap[refs.zoomTarget].viewport[1] # R(0)

(* C21: every frame that returns, disabled or active, with antialias on or
   off, performs exactly one render call to the screen, which is its last
   render call, and leaves the screen (null) as the renderer's render
   target; between frames no offscreen buffer is bound. *)
C21_OneScreenPassLast ==
    /\ FrameReturned =>
          LET calls == lastFrame.calls IN
          /\ Len(calls) >= 1
          /\ Cardinality(OnScreen(calls)) = 1
          /\ calls[Len(calls)].target = SCREEN
          /\ \A i \in 1..(Len(calls) - 1) : calls[i].target # SCREEN
          /\ gl.target = SCREEN
    /\ gl.target = SCREEN

(* an active frame with antialias, run after a disabled frame: three
   offscreen passes, then the screen pass *)
C21_Witness ==
    /\ ActiveFrame
    /\ lastFrame.previous = "disabled"
    /\ props.antialias
    /\ Len(lastFrame.calls) = 4
    /\ lastFrame.calls[3].target = refs.fxaaTarget
    /\ lastFrame.calls[4].target = SCREEN
    /\ gl.target = SCREEN

(* C22: under any interleaving of frames with reallocations and teardown, no
   pass renders into or samples a disposed buffer: in every active frame the
   render targets and the textures bound to zoomedTexture, originalTexture
   and tDiffuse are the three buffers of the latest allocation, none of
   them disposed. *)
C22_NoDisposedBufferUsed ==
    /\ FrameRan =>
          \A i \in 1..Len(lastFrame.calls) :
              LET c == lastFrame.calls[i] IN
              /\ ~c.targetDisposed
              /\ c.target \in RefIds(refs) \cup {SCREEN}
              /\ \A k \in DOMAIN c.samples :
                    /\ c.samples[k] \in RefIds(refs)
                    /\ ~lastFrame.pre.heap[c.samples[k]].disposed
                    /\ ~heap[c.samples[k]].disposed
    /\ ActiveFrame =>
          /\ RefIds(refs) = (Len(heap) - 2)..Len(heap)
          /\ \A id \in RefIds(refs) : ~heap[id].disposed
          /\ uniforms.zoomedTexture = refs.zoomTarget
          /\ uniforms.originalTexture = refs.defaultTarget
          /\ props.antialias => fxaaUniforms.tDiffuse = refs.fxaaTarget
          /\ lastFrame.calls[3].samples = <<refs.defaultTarget, refs.zoomTarget>>

(* an active frame after a reallocation: before the frame the lens and
   FXAA uniforms still held textures of the earlier, now disposed buffers *)
C22_Witness ==
    /\ ActiveFrame
    /\ props.antialias
    /\ Len(heap) >= 6
    /\ lastFrame.pre.uniforms.zoomedTexture \in DOMAIN heap \ RefIds(refs)
    /\ heap[lastFrame.pre.uniforms.zoomedTexture].disposed
    /\ lastFrame.pre.fxaaUniforms.tDiffuse \in DOMAIN heap \ RefIds(refs)
    /\ lastFrame.calls[4].samples = <<refs.fxaaTarget>>

====
